---- MODULE Spec2Model ----
(***************************************************************************)
(* A model of the podcast generator: the transcript parser (parse_script), *)
(* the audio pipeline (generate_podcast_audio) and the Streamlit front-end *)
(* (main) that drives search -> summarize -> script -> audio.              *)
(*                                                                         *)
(* Text is modelled as a sequence of one-character strings.  The one       *)
(* non-ASCII character the model needs, U+017F LATIN SMALL LETTER LONG S,  *)
(* is written "U+017F": Python's re.IGNORECASE matches it against "s",     *)
(* while str.lower leaves it alone.                                        *)
(***************************************************************************)
EXTENDS Integers, Sequences, FiniteSets, TLC

VARIABLES
    pc,             \* position of the front-end / pipeline
    script,         \* the script text handed to parse_script
    parsed_script,  \* what parse_script returned
    req,            \* how many times the generate button was clicked
    topic,          \* the topic typed for the current request
    stages,         \* the stages invoked by the current request, in order
    results,        \* how each finished stage ended: "ok" or "error"
    exc,            \* the exception in flight (NoExc: none)
    error,          \* what st.error showed for the current request (NoExc: nothing)
    session,        \* st.session_state: generated_script/_audio/_topic
    out_file,       \* the file at audio_path
    temp_dir,       \* the directory tempfile.mkdtemp made for this run
    temp_files,     \* the files in temp_dir: name -> content
    i,              \* loop index of the per-turn loop
    audio_segments, \* the list generate_podcast_audio appends to
    tts_calls,      \* every call of _generate_single_audio in this run
    removal_failed, \* whether an os.remove / os.rmdir of this run failed
    \* two sessions of the one Streamlit process running main() at once
    cpc,            \* each session's position
    genai_config,   \* the api_key genai.configure last stored, process-wide
    used_key,       \* the api_key each generate_content call of a session ran with
    fs,             \* the files and directories on disk: path -> the session that made it
    my_key,         \* each session's gemini_api_key
    my_dir,         \* each session's temp_dir
    my_out,         \* each session's audio_path
    turn,           \* each session's loop index
    foreign         \* whether a session touched a path another session made

(***************************************************************************)
(* Characters                                                              *)
(***************************************************************************)
LongS == "U+017F"

\* str.isspace over the model's alphabet: what \s matches and strip() removes
Whitespace == {" ", "\n"}

UpperLetters == <<"H", "O", "S", "T", "G", "U", "E", "I", "L", "B", "Y", "X">>
LowerLetters == <<"h", "o", "s", "t", "g", "u", "e", "i", "l", "b", "y", "x">>

IndexIn(c, letters) ==
    IF \E k \in 1..Len(letters) : letters[k] = c
    THEN CHOOSE k \in 1..Len(letters) : letters[k] = c
    ELSE 0

\* str.lower on one character: U+017F is already lower case
Lower(c) ==
    IF IndexIn(c, UpperLetters) > 0 THEN LowerLetters[IndexIn(c, UpperLetters)] ELSE c

\* str.upper / str.title on one character: U+017F upper-cases to "S"
Upper(c) ==
    IF c = LongS THEN "S"
    ELSE IF IndexIn(c, LowerLetters) > 0 THEN UpperLetters[IndexIn(c, LowerLetters)]
    ELSE c

\* re.IGNORECASE on str patterns: two characters match when their simple case
\* folding agrees, and U+017F folds to "s"
Fold(c) == IF c = LongS THEN "s" ELSE Lower(c)

IgnoreCaseEq(p, c) == Fold(p) = Fold(c)

\* str.capitalize: first character upper-cased, the rest lower-cased
capitalize(s) ==
    [k \in 1..Len(s) |-> IF k = 1 THEN Upper(s[k]) ELSE Lower(s[k])]

\* str.strip
RECURSIVE LStrip(_)
LStrip(s) ==
    IF s # <<>> /\ Head(s) \in Whitespace THEN LStrip(Tail(s)) ELSE s

RECURSIVE RStrip(_)
RStrip(s) ==
    IF s # <<>> /\ s[Len(s)] \in Whitespace THEN RStrip(SubSeq(s, 1, Len(s) - 1)) ELSE s

Strip(s) == RStrip(LStrip(s))

(***************************************************************************)
(* parse_script: the pattern (Host|Guest):\s*(.+?)(?=(?:Host|Guest):|$)    *)
(* under re.DOTALL | re.IGNORECASE, applied with re.findall                *)
(***************************************************************************)
HostWord == <<"H", "o", "s", "t">>
GuestWord == <<"G", "u", "e", "s", "t">>

WordAt(s, p, w) ==
    /\ p >= 1
    /\ p + Len(w) - 1 <= Len(s)
    /\ \A k \in 1..Len(w) : IgnoreCaseEq(w[k], s[p + k - 1])

\* (Host|Guest): at position p: the length of the speaker word, 0 when no label
\* starts there
LabelLenAt(s, p) ==
    IF WordAt(s, p, HostWord) /\ WordAt(s, p + Len(HostWord), <<":">>)
    THEN Len(HostWord)
    ELSE IF WordAt(s, p, GuestWord) /\ WordAt(s, p + Len(GuestWord), <<":">>)
    THEN Len(GuestWord)
    ELSE 0

\* $ without re.MULTILINE: the end of the string, or just before a final newline
AtDollar(s, e) == e = Len(s) + 1 \/ (e = Len(s) /\ s[e] = "\n")

\* the lookahead (?=(?:Host|Guest):|$)
Lookahead(s, e) == LabelLenAt(s, e) > 0 \/ AtDollar(s, e)

\* \s* is greedy: how many whitespace characters follow position q - 1
RECURSIVE WsRun(_, _)
WsRun(s, q) ==
    IF q <= Len(s) /\ s[q] \in Whitespace THEN 1 + WsRun(s, q + 1) ELSE 0

\* One match attempt at p.  \s* takes the longest run it can and gives characters
\* back only when (.+?) would otherwise have nothing to take; (.+?) takes at
\* least one character and then as few as let the lookahead succeed.
MatchAt(s, p) ==
    LET L == LabelLenAt(s, p)
        q == p + L + 1
        W == WsRun(s, q)
        usable == {w \in 0..W : q + w <= Len(s)}
    IN  IF L = 0 \/ usable = {}
        THEN [ok |-> FALSE, speaker |-> <<>>, text |-> <<>>, start |-> p, end |-> p]
        ELSE LET w == CHOOSE x \in usable : \A y \in usable : y <= x
                 b == q + w
                 ends == {e \in (b + 1)..(Len(s) + 1) : Lookahead(s, e)}
                 e == CHOOSE x \in ends : \A y \in ends : x <= y
             IN  [ok |-> TRUE,
                  speaker |-> SubSeq(s, p, p + L - 1),
                  text |-> SubSeq(s, b, e - 1),
                  start |-> p,
                  end |-> e]

\* re.findall: scan left to right, resume after each match
RECURSIVE findall(_, _)
findall(s, p) ==
    IF p > Len(s) THEN <<>>
    ELSE LET m == MatchAt(s, p)
         IN  IF m.ok THEN <<m>> \o findall(s, m.end) ELSE findall(s, p + 1)

\* the loop of parse_script over the matches: strip, drop empty, capitalize
RECURSIVE CleanMatches(_)
CleanMatches(ms) ==
    IF ms = <<>> THEN <<>>
    ELSE LET m == Head(ms)
             cleaned_text == Strip(m.text)
         IN  IF cleaned_text # <<>>
             THEN <<[speaker |-> capitalize(m.speaker),
                     text |-> cleaned_text,
                     start |-> m.start]>> \o CleanMatches(Tail(ms))
             ELSE CleanMatches(Tail(ms))

\* parse_script with each turn's label position kept beside it
parse_script_located(s) == CleanMatches(findall(s, 1))

parse_script(s) ==
    LET ts == parse_script_located(s)
    IN  [k \in 1..Len(ts) |-> <<ts[k].speaker, ts[k].text>>]

(***************************************************************************)
(* Inputs of the parser                                                    *)
(***************************************************************************)
MaxFrags == 4

Fragments ==
    { <<"H", "o", "s", "t", ":">>,
      <<"g", "U", "E", "S", "T", ":">>,
      <<"H", "o", LongS, "t", ":">>,
      <<" ">>,
      <<"\n">>,
      <<"H", "i">>,
      <<"x">> }

RECURSIVE Concat(_)
Concat(frs) == IF frs = <<>> THEN <<>> ELSE Head(frs) \o Concat(Tail(frs))

\* "Host: Hi\nGuest: Hello\nHost: Bye"
ExampleScript ==
    <<"H", "o", "s", "t", ":", " ", "H", "i", "\n",
      "G", "u", "e", "s", "t", ":", " ", "H", "e", "l", "l", "o", "\n",
      "H", "o", "s", "t", ":", " ", "B", "y", "e">>

\* "no labels here", shortened to "no x"
NoLabelScript == <<"n", "o", " ", "x">>

ParseInputs ==
    {Concat(frs) : frs \in UNION {[1..n -> Fragments] : n \in 0..MaxFrags}}
        \cup {ExampleScript, NoLabelScript}

(***************************************************************************)
(* State shared by the specifications                                      *)
(***************************************************************************)
\* a session_state entry: None, or a stored value
None == [set |-> FALSE, value |-> <<>>]
Some(v) == [set |-> TRUE, value |-> v]

\* the file at audio_path: absent ("none", "unlinked"), or present with its audio
File(state, audio) == [state |-> state, audio |-> audio]
NoFile == File("none", <<>>)
NoExc == [stage |-> "none", kind |-> "none"]
NoFiles == [f \in {} |-> "none"]
UnsetSession ==
    [generated_script |-> None, generated_audio |-> None, generated_topic |-> None]

runVars ==
    <<req, topic, stages, results, exc, error, session, out_file, temp_dir,
      temp_files, i, audio_segments, tts_calls, removal_failed>>

seqVars == <<pc, script, parsed_script, runVars>>

concVars == <<cpc, genai_config, used_key, fs, my_key, my_dir, my_out, turn, foreign>>

vars == <<seqVars, concVars>>

Sessions == {"A", "B"}
NoPath == "none"
NoPaths == [x \in {} |-> "none"]

\* the sessions before either has clicked
ConcIdle ==
    /\ cpc = [r \in Sessions |-> "idle"]
    /\ genai_config = "unset"
    /\ used_key = [r \in Sessions |-> <<>>]
    /\ fs = NoPaths
    /\ my_key = [r \in Sessions |-> "unset"]
    /\ my_dir = [r \in Sessions |-> NoPath]
    /\ my_out = [r \in Sessions |-> NoPath]
    /\ turn = [r \in Sessions |-> 0]
    /\ foreign = FALSE

\* the state of the front-end between two runs of main()
IdleLocals ==
    /\ script = <<>>
    /\ parsed_script = <<>>
    /\ topic = <<>>
    /\ stages = <<>>
    /\ results = <<>>
    /\ exc = NoExc
    /\ error = NoExc
    /\ out_file = NoFile
    /\ temp_dir = "none"
    /\ temp_files = NoFiles
    /\ i = 0
    /\ audio_segments = <<>>
    /\ tts_calls = <<>>
    /\ removal_failed = FALSE

(***************************************************************************)
(* The parser on its own                                                   *)
(***************************************************************************)
InitParse ==
    /\ pc = "parse_call"
    /\ script \in ParseInputs
    /\ parsed_script = <<>>
    /\ req = 0
    /\ session = UnsetSession
    /\ topic = <<>>
    /\ stages = <<>>
    /\ results = <<>>
    /\ exc = NoExc
    /\ error = NoExc
    /\ out_file = NoFile
    /\ temp_dir = "none"
    /\ temp_files = NoFiles
    /\ i = 0
    /\ audio_segments = <<>>
    /\ tts_calls = <<>>
    /\ removal_failed = FALSE
    /\ ConcIdle

ParseScript ==
    /\ pc = "parse_call"
    /\ parsed_script' = parse_script(script)
    /\ pc' = "parse_done"
    /\ UNCHANGED <<script, runVars>>
    /\ UNCHANGED concVars

NextParse == ParseScript

SpecParse == InitParse /\ [][NextParse]_vars

(***************************************************************************)
(* The front-end (app.py main) and generate_podcast_audio                  *)
(***************************************************************************)
MaxRequests == 2
PauseMs == 500

HOST_VOICE == "ko-KR-InJoonNeural"
GUEST_VOICE == "ko-KR-SunHiNeural"
HostName == <<"H", "o", "s", "t">>

\* what the text-generation service may return as a script
AppScripts ==
    { <<>>,
      NoLabelScript,
      <<"H", "o", "s", "t", ":", " ", "H", "i", "\n", "G", "u", "e", "s", "t", ":", "x">>,
      <<"g", "U", "E", "S", "T", ":", "H", "i">>,
      <<"H", "o", LongS, "t", ":", "x">>,
      ExampleScript }

Topics == { <<>>, <<" ">>, <<"A", "I">> }
ApiKeys == {"", "key"}
\* durations, in ms, the speech service may give a segment
SegDurs == {1000, 1700}

StageOrder == <<"search", "summarize", "script", "audio">>

Raise(stage, kind) == [stage |-> stage, kind |-> kind]

\* f with name n bound to content c
WithFile(f, n, c) == [x \in DOMAIN f \cup {n} |-> IF x = n THEN c ELSE f[x]]

\* os.path.join(temp_dir, f"segment_{i}.mp3")
SegmentFile(k) == <<"segment", k>>

\* pydub: a + b appends b's audio to a's (no crossfade)
RECURSIVE Combine(_)
Combine(segs) == IF segs = <<>> THEN <<>> ELSE Head(segs) \o Combine(Tail(segs))

RECURSIVE Duration(_)
Duration(track) == IF track = <<>> THEN 0 ELSE Head(track).ms + Duration(Tail(track))

Init ==
    /\ pc = "idle"
    /\ req = 0
    /\ session = UnsetSession
    /\ IdleLocals
    /\ ConcIdle

\* app.py 126-152: the button was clicked; validation
ClickGenerate ==
    /\ pc = "idle"
    /\ req < MaxRequests
    /\ req' = req + 1
    /\ \E gemini_api_key \in ApiKeys, tavily_api_key \in ApiKeys,
          tp \in Topics, ffmpeg \in BOOLEAN :
          /\ topic' = tp
          /\ IF gemini_api_key = ""
             THEN error' = Raise("validation", "no gemini key") /\ pc' = "run_end"
             ELSE IF tavily_api_key = ""
             THEN error' = Raise("validation", "no tavily key") /\ pc' = "run_end"
             ELSE IF Strip(tp) = <<>>
             THEN error' = Raise("validation", "no topic") /\ pc' = "run_end"
             ELSE IF ~ffmpeg
             THEN error' = Raise("validation", "no ffmpeg") /\ pc' = "run_end"
             ELSE error' = NoExc /\ pc' = "search"
    /\ UNCHANGED <<script, parsed_script, stages, results, exc, session, out_file,
                   temp_dir, temp_files, i, audio_segments, tts_calls, removal_failed>>
    /\ UNCHANGED concVars

\* a stage that calls a network collaborator: it returns or it raises
CallStage(at, name, next) ==
    /\ pc = at
    /\ stages' = Append(stages, name)
    /\ \E ok \in BOOLEAN :
          IF ok
          THEN /\ results' = Append(results, "ok")
               /\ pc' = next
               /\ exc' = exc
          ELSE /\ results' = Append(results, "error")
               /\ pc' = "except"
               /\ exc' = Raise(name, "collaborator")

\* search_web with its failure swallowed: the run carries on to summarize
search_web_swallows ==
    /\ pc = "search"
    /\ stages' = Append(stages, "search")
    /\ \E ok \in BOOLEAN : results' = Append(results, IF ok THEN "ok" ELSE "error")
    /\ pc' = "summarize"
    /\ UNCHANGED <<script, parsed_script, req, topic, exc, error, session, out_file,
                   temp_dir, temp_files, i, audio_segments, tts_calls, removal_failed>>
    /\ UNCHANGED concVars

\* app.py 159
search_web ==
    /\ CallStage("search", "search", "summarize")
    /\ UNCHANGED <<script, parsed_script, req, topic, error, session, out_file,
                   temp_dir, temp_files, i, audio_segments, tts_calls, removal_failed>>
    /\ UNCHANGED concVars

\* app.py 169
summarize_search_results ==
    /\ CallStage("summarize", "summarize", "script")
    /\ UNCHANGED <<script, parsed_script, req, topic, error, session, out_file,
                   temp_dir, temp_files, i, audio_segments, tts_calls, removal_failed>>
    /\ UNCHANGED concVars

\* generate_script with the script stored in the session as soon as it arrives
generate_script_stores ==
    /\ CallStage("script", "script", "tempfile")
    /\ \E text \in AppScripts :
          /\ script' = IF pc' = "tempfile" THEN text ELSE script
          /\ session' = IF pc' = "tempfile"
                        THEN [session EXCEPT !.generated_script = Some(text)]
                        ELSE session
    /\ UNCHANGED <<parsed_script, req, topic, error, out_file,
                   temp_dir, temp_files, i, audio_segments, tts_calls, removal_failed>>
    /\ UNCHANGED concVars

\* app.py 181
generate_script ==
    /\ CallStage("script", "script", "tempfile")
    /\ \E text \in AppScripts :
          script' = IF pc' = "tempfile" THEN text ELSE script
    /\ UNCHANGED <<parsed_script, req, topic, error, session, out_file,
                   temp_dir, temp_files, i, audio_segments, tts_calls, removal_failed>>
    /\ UNCHANGED concVars

\* app.py 196-197: NamedTemporaryFile(delete=False) leaves an empty file
NamedTemporaryFile ==
    /\ pc = "tempfile"
    /\ out_file' = File("empty", <<>>)
    /\ pc' = "gpa_parse"
    /\ UNCHANGED <<script, parsed_script, req, topic, stages, results, exc, error,
                   session, temp_dir, temp_files, i, audio_segments, tts_calls,
                   removal_failed>>
    /\ UNCHANGED concVars

\* app.py 201, utils.py 223
gpa_parse ==
    /\ pc = "gpa_parse"
    /\ stages' = Append(stages, "audio")
    /\ parsed_script' = parse_script(script)
    /\ pc' = "gpa_check"
    /\ UNCHANGED <<script, req, topic, results, exc, error, session, out_file,
                   temp_dir, temp_files, i, audio_segments, tts_calls, removal_failed>>
    /\ UNCHANGED concVars

\* generate_podcast_audio without its "if not parsed_script" check: the loop
\* runs zero times and nothing is exported
gpa_check_unchecked ==
    /\ pc = "gpa_check"
    /\ temp_dir' = "exists"
    /\ temp_files' = NoFiles
    /\ audio_segments' = <<>>
    /\ i' = 0
    /\ pc' = IF parsed_script = <<>> THEN "export" ELSE "tts"
    /\ UNCHANGED <<script, parsed_script, req, topic, stages, results, exc, error,
                   session, out_file, tts_calls, removal_failed>>
    /\ UNCHANGED concVars

\* utils.py 225-230
gpa_check ==
    /\ pc = "gpa_check"
    /\ IF parsed_script = <<>>
       THEN /\ exc' = Raise("audio", "ValueError")
            /\ results' = Append(results, "error")
            /\ pc' = "except"
            /\ UNCHANGED <<temp_dir, temp_files, i, audio_segments>>
       ELSE /\ temp_dir' = "exists"
            /\ temp_files' = NoFiles
            /\ audio_segments' = <<>>
            /\ i' = 0
            /\ pc' = "tts"
            /\ UNCHANGED <<exc, results>>
    /\ UNCHANGED <<script, parsed_script, req, topic, stages, error, session,
                   out_file, tts_calls, removal_failed>>
    /\ UNCHANGED concVars

\* utils.py 235
VoiceFor(speaker) == IF speaker = HostName THEN HOST_VOICE ELSE GUEST_VOICE

\* utils.py 234-239: one _generate_single_audio call; the service answers or fails,
\* and a failed call may leave a partly written file behind
tts ==
    /\ pc = "tts"
    /\ LET speaker == parsed_script[i + 1][1]
           text == parsed_script[i + 1][2]
           voice == VoiceFor(speaker)
           temp_file == SegmentFile(i)
           call == [index |-> i, speaker |-> speaker, text |-> text,
                    voice |-> voice, path |-> temp_file, ms |-> 0]
       IN  /\ \/ \E ms \in SegDurs :
                    /\ tts_calls' = Append(tts_calls, [call EXCEPT !.ms = ms])
                    /\ temp_files' = WithFile(temp_files, temp_file,
                           [kind |-> "speech", text |-> text, voice |-> voice, ms |-> ms])
                    /\ pc' = "decode"
                    /\ exc' = exc
              \/ \E wrote \in BOOLEAN :
                    /\ tts_calls' = Append(tts_calls, call)
                    /\ temp_files' = IF wrote
                                     THEN WithFile(temp_files, temp_file, "partial")
                                     ELSE temp_files
                    /\ pc' = "finally"
                    /\ exc' = Raise("audio", "tts")
    /\ UNCHANGED <<script, parsed_script, req, topic, stages, results, error, session,
                   out_file, temp_dir, i, audio_segments, removal_failed>>
    /\ UNCHANGED concVars

\* decode with the pause appended between turns only, not after the last one
decode_pause_between_only ==
    /\ pc = "decode"
    /\ \/ /\ audio_segments' = audio_segments \o
                 (IF i + 1 < Len(parsed_script)
                  THEN << <<temp_files[SegmentFile(i)]>>,
                          <<[kind |-> "silence", ms |-> PauseMs]>> >>
                  ELSE << <<temp_files[SegmentFile(i)]>> >>)
          /\ i' = i + 1
          /\ pc' = IF i + 1 < Len(parsed_script) THEN "tts" ELSE "export"
          /\ exc' = exc
       \/ /\ exc' = Raise("audio", "decode")
          /\ pc' = "finally"
          /\ UNCHANGED <<audio_segments, i>>
    /\ UNCHANGED <<script, parsed_script, req, topic, stages, results, error, session,
                   out_file, temp_dir, temp_files, tts_calls, removal_failed>>
    /\ UNCHANGED concVars

\* utils.py 242-256, and the loop header 234
decode ==
    /\ pc = "decode"
    /\ \/ /\ audio_segments' = audio_segments \o
                 << <<temp_files[SegmentFile(i)]>>,
                    <<[kind |-> "silence", ms |-> PauseMs]>> >>
          /\ i' = i + 1
          /\ pc' = IF i + 1 < Len(parsed_script) THEN "tts" ELSE "export"
          /\ exc' = exc
       \/ /\ exc' = Raise("audio", "decode")
          /\ pc' = "finally"
          /\ UNCHANGED <<audio_segments, i>>
    /\ UNCHANGED <<script, parsed_script, req, topic, stages, results, error, session,
                   out_file, temp_dir, temp_files, tts_calls, removal_failed>>
    /\ UNCHANGED concVars

\* utils.py 259-267
export ==
    /\ pc = "export"
    /\ IF audio_segments # <<>>
       THEN \/ /\ out_file' = File("written", Combine(audio_segments))
               /\ exc' = exc
            \/ /\ out_file' \in {out_file, File("partial", <<>>)}
               /\ exc' = Raise("audio", "export")
       ELSE UNCHANGED <<out_file, exc>>
    /\ pc' = "finally"
    /\ UNCHANGED <<script, parsed_script, req, topic, stages, results, error, session,
                   temp_dir, temp_files, i, audio_segments, tts_calls, removal_failed>>
    /\ UNCHANGED concVars

\* the clean-up placed after the happy path instead of in a finally block
cleanup_skipped_on_error ==
    /\ pc = "finally"
    /\ IF exc = NoExc
       THEN /\ \E kept \in SUBSET (DOMAIN temp_files), rmdir_ok \in BOOLEAN :
                  /\ temp_files' = [f \in kept |-> temp_files[f]]
                  /\ temp_dir' = IF kept = {} /\ rmdir_ok THEN "removed" ELSE "exists"
                  /\ removal_failed' = ~(kept = {} /\ rmdir_ok)
            /\ results' = Append(results, "ok")
            /\ pc' = "read"
       ELSE /\ results' = Append(results, "error")
            /\ pc' = "except"
            /\ UNCHANGED <<temp_files, temp_dir, removal_failed>>
    /\ UNCHANGED <<script, parsed_script, req, topic, stages, exc, error, session,
                   out_file, i, audio_segments, tts_calls>>
    /\ UNCHANGED concVars

\* utils.py 269-279: the finally block.  Each os.remove and the os.rmdir may
\* fail, and os.rmdir fails on a directory that still holds a file; these
\* failures are swallowed.  os.listdir stands outside the try statements: when
\* it fails nothing is removed and its error replaces the outcome of the body.
cleanup ==
    /\ pc = "finally"
    /\ \/ /\ \E kept \in SUBSET (DOMAIN temp_files), rmdir_ok \in BOOLEAN :
                /\ temp_files' = [f \in kept |-> temp_files[f]]
                /\ temp_dir' = IF kept = {} /\ rmdir_ok THEN "removed" ELSE "exists"
                /\ removal_failed' = ~(kept = {} /\ rmdir_ok)
          /\ IF exc = NoExc
             THEN results' = Append(results, "ok") /\ pc' = "read"
             ELSE results' = Append(results, "error") /\ pc' = "except"
          /\ exc' = exc
       \/ /\ exc' = Raise("audio", "listdir")
          /\ results' = Append(results, "error")
          /\ pc' = "except"
          /\ UNCHANGED <<temp_files, temp_dir, removal_failed>>
    /\ UNCHANGED <<script, parsed_script, req, topic, stages, error, session,
                   out_file, i, audio_segments, tts_calls>>
    /\ UNCHANGED concVars

\* app.py 202-221: read the audio, store the results, unlink the file
save_results ==
    /\ pc = "read"
    /\ session' = [generated_script |-> Some(script),
                   generated_audio |-> Some(out_file.audio),
                   generated_topic |-> Some(topic)]
    /\ \E unlinked \in BOOLEAN :
          out_file' = IF unlinked THEN File("unlinked", <<>>) ELSE out_file
    /\ pc' = "run_end"
    /\ UNCHANGED <<script, parsed_script, req, topic, stages, results, exc, error,
                   temp_dir, temp_files, i, audio_segments, tts_calls, removal_failed>>
    /\ UNCHANGED concVars

\* app.py 223-226
except ==
    /\ pc = "except"
    /\ error' = exc
    /\ pc' = "run_end"
    /\ UNCHANGED <<script, parsed_script, req, topic, stages, results, exc, session,
                   out_file, temp_dir, temp_files, i, audio_segments, tts_calls,
                   removal_failed>>
    /\ UNCHANGED concVars

\* main() returns; its locals are gone, and the files it left are under names
\* (mkdtemp, NamedTemporaryFile) no later run is given again
end_run ==
    /\ pc = "run_end"
    /\ pc' = "idle"
    /\ script' = <<>>
    /\ parsed_script' = <<>>
    /\ topic' = <<>>
    /\ stages' = <<>>
    /\ results' = <<>>
    /\ exc' = NoExc
    /\ error' = NoExc
    /\ out_file' = NoFile
    /\ temp_dir' = "none"
    /\ temp_files' = NoFiles
    /\ i' = 0
    /\ audio_segments' = <<>>
    /\ tts_calls' = <<>>
    /\ removal_failed' = FALSE
    /\ UNCHANGED <<req, session>>
    /\ UNCHANGED concVars

Next ==
    \/ ClickGenerate
    \/ search_web
    \/ summarize_search_results
    \/ generate_script
    \/ NamedTemporaryFile
    \/ gpa_parse
    \/ gpa_check
    \/ tts
    \/ decode
    \/ export
    \/ cleanup
    \/ save_results
    \/ except
    \/ end_run

Spec == Init /\ [][Next]_vars

(***************************************************************************)
(* Properties of generate_podcast_audio and the front-end, under Spec      *)
(***************************************************************************)
GuestName == <<"G", "u", "e", "s", "t">>
ValueError == Raise("audio", "ValueError")

\* the finally block of a run that made a temporary directory has run
AfterCleanup == temp_dir # "none" /\ pc \in {"read", "except", "run_end"}

\* the errors the body of generate_podcast_audio can raise
BodyErrors == {Raise("audio", "tts"), Raise("audio", "decode"), Raise("audio", "export")}

\* what os.listdir raises when the directory cannot be listed
ListdirError == Raise("audio", "listdir")

C2_NothingLeftAfterSynthesisFailure ==
    (pc = "run_end" /\ exc.kind \in {"tts", "decode"}) =>
        /\ \A k \in 1..Len(tts_calls) : tts_calls[k].index <= i
        /\ Len(tts_calls) = i + 1
        /\ error = exc
        /\ out_file.state \in {"none", "unlinked"}

\* C3 as stated: for a script with no recognizable turn the parser reports an
\* error instead of returning an empty sequence to its caller.
C3_ParserNeverReturnsEmpty ==
    pc = "gpa_check" => parsed_script # <<>>

\* C3 as amended: for a script with no recognizable turn parse_script returns
\* the empty sequence, and its caller generate_podcast_audio raises the
\* malformed-script error (ValueError) before making a temporary directory or
\* synthesizing anything; the front-end shows that error.
C3_EmptyParseRaisesInCaller ==
    (Len(stages) = 4 /\ parse_script(script) = <<>>) =>
        /\ parsed_script = <<>>
        /\ tts_calls = <<>>
        /\ temp_dir = "none"
        /\ out_file = File("empty", <<>>)
        /\ pc \in {"gpa_check", "except", "run_end"}
        /\ (pc # "gpa_check" => exc = ValueError)
        /\ (pc = "run_end" => error = ValueError)

\* the script without labels was refused
C3_Witness ==
    /\ pc = "run_end"
    /\ script = NoLabelScript
    /\ error = ValueError

\* the total length of the segments the speech service produced
RECURSIVE SumMs(_)
SumMs(calls) == IF calls = <<>> THEN 0 ELSE Head(calls).ms + SumMs(Tail(calls))

C6_StagesInOrder ==
    /\ Len(stages) <= Len(StageOrder)
    /\ \A k \in 1..Len(stages) : stages[k] = StageOrder[k]
    /\ Len(results) <= Len(stages)
    /\ Len(stages) <= Len(results) + 1
    /\ \A k \in 1..Len(stages) : k < Len(stages) => results[k] = "ok"
    /\ \A k \in 1..Len(results) :
          results[k] = "error" =>
              /\ k = Len(stages)
              /\ pc \in {"except", "run_end"}
              /\ exc.stage = stages[k]
              /\ (pc = "run_end" => error = exc)
    /\ (pc = "run_end" /\ error.stage \notin {"none", "validation"}) =>
          /\ results # <<>>
          /\ results[Len(results)] = "error"

\* script generation failed: two stages ran before it, none after it
C6_Witness ==
    /\ pc = "run_end"
    /\ stages = <<"search", "summarize", "script">>
    /\ results = <<"ok", "ok", "error">>
    /\ error = Raise("script", "collaborator")

\* C9: one synthesis call per turn, in increasing turn index, turn i+1 only
\* after turn i was decoded, each into a file named after its index, with the
\* Host voice for Host and the Guest voice for Guest and no other speaker ever
\* reaching the choice of voice.
C9_OneCallPerTurnWithItsVoice ==
    /\ \A k \in 1..Len(tts_calls) :
          /\ tts_calls[k].index = k - 1
          /\ tts_calls[k].path = SegmentFile(k - 1)
          /\ tts_calls[k].text = parsed_script[k][2]
          /\ tts_calls[k].speaker \in {HostName, GuestName}
          /\ (tts_calls[k].speaker = HostName => tts_calls[k].voice = HOST_VOICE)
          /\ (tts_calls[k].speaker = GuestName => tts_calls[k].voice = GUEST_VOICE)
    /\ 2 * Len(tts_calls) <= Len(audio_segments) + 2
    /\ (pc = "read" => Len(tts_calls) = Len(parsed_script))

SessionUnset == session = UnsetSession
SessionSet ==
    /\ session.generated_script.set
    /\ session.generated_audio.set
    /\ session.generated_topic.set

\* C10: the three stored results are written only by a request whose four
\* stages all succeeded, all three together from that request; every other
\* step leaves them alone, so they are all unset or all from one request.
C10_SessionWrittenTogether ==
    /\ [](SessionUnset \/ SessionSet)
    /\ [][session' # session =>
            /\ stages = StageOrder
            /\ results = <<"ok", "ok", "ok", "ok">>
            /\ exc = NoExc
            /\ out_file.state = "written"
            /\ session' = [generated_script |-> Some(script),
                           generated_audio |-> Some(out_file.audio),
                           generated_topic |-> Some(topic)]]_vars

\* a second request failed in a stage and the results of the first are still
\* stored
C10_Witness ==
    /\ req = 2
    /\ pc = "run_end"
    /\ error.stage = "audio"
    /\ SessionSet

(***************************************************************************)
(* Properties of parse_script, under SpecParse                             *)
(***************************************************************************)
HasLabel(s) == \E p \in 1..Len(s) : LabelLenAt(s, p) > 0

ContainsLabel(text) == HasLabel(text)

\* "Host: Hi\nGuest: Hello\nHost: Bye" parsed
ExampleTurns ==
    << <<HostName, <<"H", "i">> >>,
       <<GuestName, <<"H", "e", "l", "l", "o">> >>,
       <<HostName, <<"B", "y", "e">> >> >>

\* C4: for a script with at least one recognizable label, the turns come in the
\* left-to-right order of their labels, every speaker is exactly Host or
\* Guest, every text is non-empty and trimmed; the example script yields
\* exactly its three turns.
C4_TurnsInOrderAndNormalized ==
    (pc = "parse_done" /\ HasLabel(script)) =>
        LET ts == parse_script_located(script)
        IN  /\ Len(parsed_script) = Len(ts)
            /\ \A k \in 1..Len(parsed_script) :
                  /\ parsed_script[k][1] \in {HostName, GuestName}
                  /\ parsed_script[k][2] # <<>>
                  /\ Head(parsed_script[k][2]) \notin Whitespace
                  /\ parsed_script[k][2][Len(parsed_script[k][2])] \notin Whitespace
                  /\ LabelLenAt(script, ts[k].start) = Len(parsed_script[k][1])
                  /\ (k > 1 => ts[k - 1].start < ts[k].start)
            /\ (script = ExampleScript => parsed_script = ExampleTurns)

\* the utterance texts the labels of s delimit: from each label's colon to the
\* next label or the end, trimmed, the empty ones dropped
RECURSIVE UtterancesFrom(_, _)
UtterancesFrom(s, p) ==
    IF p > Len(s) THEN <<>>
    ELSE IF LabelLenAt(s, p) = 0 THEN UtterancesFrom(s, p + 1)
    ELSE LET b == p + LabelLenAt(s, p) + 1
             later == {n \in b..Len(s) : LabelLenAt(s, n) > 0}
             e == IF later = {} THEN Len(s) + 1
                  ELSE CHOOSE n \in later : \A m \in later : n <= m
             text == Strip(SubSeq(s, b, e - 1))
         IN  (IF text = <<>> THEN <<>> ELSE <<text>>) \o UtterancesFrom(s, e)

\* C8: each turn carries exactly the trimmed text between its label's colon
\* and the next recognized label or the end of input: no text holds a label, a
\* label with an empty utterance yields no turn and absorbs nothing, text
\* before the first label is in no turn, text after the last label is in the
\* last turn.
C8_TurnTextIsItsOwnUtterance ==
    pc = "parse_done" =>
        /\ \A k \in 1..Len(parsed_script) : ~ContainsLabel(parsed_script[k][2])
        /\ [k \in 1..Len(parsed_script) |-> parsed_script[k][2]]
               = UtterancesFrom(script, 1)

(***************************************************************************)
(* Two sessions running the pipeline at once.  Streamlit runs each          *)
(* session's script in a thread of the one server process, so the module    *)
(* state of google.generativeai and the disk are common to both.            *)
(***************************************************************************)
UserKeys == {"key-1", "key-2"}
TempNames == {"tmp1", "tmp2"}

\* the script both sessions synthesize
ConcScript ==
    <<"H", "o", "s", "t", ":", " ", "H", "i", "\n", "G", "u", "e", "s", "t", ":", "x">>

Path(kind, name, idx) == [kind |-> kind, name |-> name, idx |-> idx]

Exists(p) == p \in DOMAIN fs

\* session r reads, writes or deletes path p
Touch(r, ps) == foreign' = (foreign \/ \E p \in ps : Exists(p) /\ fs[p] # r)

Created(r, ps) == [p \in DOMAIN fs \cup ps |-> IF p \in DOMAIN fs THEN fs[p] ELSE r]

Removed(ps) == [p \in DOMAIN fs \ ps |-> fs[p]]

Goto(r, at) == cpc' = [cpc EXCEPT ![r] = at]

InitConc ==
    /\ pc = "idle"
    /\ req = 0
    /\ session = UnsetSession
    /\ IdleLocals
    /\ ConcIdle

\* app.py 126-152: a user clicks with the keys of that user's sidebar
c_click(r) ==
    /\ cpc[r] = "idle"
    /\ \E k \in UserKeys : my_key' = [my_key EXCEPT ![r] = k]
    /\ Goto(r, "search")
    /\ UNCHANGED <<genai_config, used_key, fs, my_dir, my_out, turn, foreign>>
    /\ UNCHANGED seqVars

\* utils.py 38-59: search_web builds a TavilyClient of its own
c_search_web(r) ==
    /\ cpc[r] = "search"
    /\ Goto(r, "summarize_configure")
    /\ UNCHANGED <<genai_config, used_key, fs, my_key, my_dir, my_out, turn, foreign>>
    /\ UNCHANGED seqVars

\* utils.py 74 and 111: genai.configure(api_key=...) stores the key process-wide
c_configure(r) ==
    /\ cpc[r] \in {"summarize_configure", "script_configure"}
    /\ genai_config' = my_key[r]
    /\ Goto(r, IF cpc[r] = "summarize_configure"
               THEN "summarize_generate" ELSE "script_generate")
    /\ UNCHANGED <<used_key, fs, my_key, my_dir, my_out, turn, foreign>>
    /\ UNCHANGED seqVars

\* utils.py 76-91 and 113-117: the model call runs with the key stored then
c_generate_content(r) ==
    /\ cpc[r] \in {"summarize_generate", "script_generate"}
    /\ used_key' = [used_key EXCEPT ![r] = Append(@, genai_config)]
    /\ Goto(r, IF cpc[r] = "summarize_generate" THEN "script_configure" ELSE "tempfile")
    /\ UNCHANGED <<genai_config, fs, my_key, my_dir, my_out, turn, foreign>>
    /\ UNCHANGED seqVars

\* app.py 196-197: NamedTemporaryFile makes a file under a name not on disk
c_NamedTemporaryFile(r) ==
    /\ cpc[r] = "tempfile"
    /\ \E n \in TempNames :
          /\ ~Exists(Path("out", n, 0))
          /\ my_out' = [my_out EXCEPT ![r] = n]
          /\ fs' = Created(r, {Path("out", n, 0)})
    /\ Goto(r, "mkdtemp")
    /\ UNCHANGED <<genai_config, used_key, my_key, my_dir, turn, foreign>>
    /\ UNCHANGED seqVars

\* utils.py 223-230: mkdtemp makes a directory under a name not on disk
c_mkdtemp(r) ==
    /\ cpc[r] = "mkdtemp"
    /\ \E n \in TempNames :
          /\ ~Exists(Path("dir", n, 0))
          /\ my_dir' = [my_dir EXCEPT ![r] = n]
          /\ fs' = Created(r, {Path("dir", n, 0)})
    /\ turn' = [turn EXCEPT ![r] = 0]
    /\ Goto(r, "synth")
    /\ UNCHANGED <<genai_config, used_key, my_key, my_out, foreign>>
    /\ UNCHANGED seqVars

\* utils.py 234-248: one turn written to and read back from segment_{i}.mp3
c_synth(r) ==
    /\ cpc[r] = "synth"
    /\ LET temp_file == Path("segment", my_dir[r], turn[r])
       IN  /\ Touch(r, {temp_file})
           /\ fs' = Created(r, {temp_file})
    /\ turn' = [turn EXCEPT ![r] = @ + 1]
    /\ Goto(r, IF turn[r] + 1 < Len(parse_script(ConcScript)) THEN "synth" ELSE "export")
    /\ UNCHANGED <<genai_config, used_key, my_key, my_dir, my_out>>
    /\ UNCHANGED seqVars

\* utils.py 259-267
c_export(r) ==
    /\ cpc[r] = "export"
    /\ Touch(r, {Path("out", my_out[r], 0)})
    /\ fs' = Created(r, {Path("out", my_out[r], 0)})
    /\ Goto(r, "finally")
    /\ UNCHANGED <<genai_config, used_key, my_key, my_dir, my_out, turn>>
    /\ UNCHANGED seqVars

\* utils.py 269-279: every file os.listdir(temp_dir) names, then the directory
c_cleanup(r) ==
    /\ cpc[r] = "finally"
    /\ LET listed == {p \in DOMAIN fs : p.kind = "segment" /\ p.name = my_dir[r]}
           gone == listed \cup {Path("dir", my_dir[r], 0)}
       IN  /\ Touch(r, gone)
           /\ fs' = Removed(gone)
    /\ Goto(r, "read")
    /\ UNCHANGED <<genai_config, used_key, my_key, my_dir, my_out, turn>>
    /\ UNCHANGED seqVars

\* app.py 205-221: the audio is read and its file unlinked
c_read_unlink(r) ==
    /\ cpc[r] = "read"
    /\ Touch(r, {Path("out", my_out[r], 0)})
    /\ fs' = Removed({Path("out", my_out[r], 0)})
    /\ Goto(r, "done")
    /\ UNCHANGED <<genai_config, used_key, my_key, my_dir, my_out, turn>>
    /\ UNCHANGED seqVars

NextConc ==
    \E r \in Sessions :
        \/ c_click(r)
        \/ c_search_web(r)
        \/ c_configure(r)
        \/ c_generate_content(r)
        \/ c_NamedTemporaryFile(r)
        \/ c_mkdtemp(r)
        \/ c_synth(r)
        \/ c_export(r)
        \/ c_cleanup(r)
        \/ c_read_unlink(r)

SpecConc == InitConc /\ [][NextConc]_vars

\* C7: two runs executing at once share no mutable state: each touches only
\* the directory and files it made itself, and no interleaving lets one run
\* read, overwrite or delete a file or a configuration the other wrote.
C7_NoSharedMutableState ==
    /\ ~foreign
    /\ \A r \in Sessions : \A k \in 1..Len(used_key[r]) : used_key[r][k] = my_key[r]

\* the part of C7 about files alone: sessions that hold a temporary directory
\* at the same time hold different ones, and none touches another's path
HoldsDir(r) == cpc[r] \in {"synth", "export", "finally"}

FilesNotShared ==
    /\ ~foreign
    /\ \A r \in Sessions, q \in Sessions :
          (r # q /\ HoldsDir(r) /\ HoldsDir(q)) => my_dir[r] # my_dir[q]

====
